---- MODULE Spec2Model ----
(***************************************************************************)
(* Model of orderbot-sync.py: a paginated fetch of Squarespace orders      *)
(* (squarespace_items / squarespace_orders_json) followed by a per-order   *)
(* transactional load of their line items into syc_orders (insert_items),  *)
(* driven by main() through handler() or the __main__ block.               *)
(***************************************************************************)
EXTENDS Integers, Sequences, FiniteSets, TLC

\* ---------------------------------------------------------------- bounds
MaxOrders == 3      \* orders in the remote collection for the window
MaxPerPage == 2     \* records the server puts on one page
MaxRuns == 2        \* invocations of main() in one behaviour

\* ------------------------------------------------------ program constants
StatusOK == 200             \* requests.codes.ok
StatusAccepted == 202       \* a non-ok status that raise_for_status lets through
StatusNotFound == 404
StatusServerError == 500
ConnErrorStatus == 500      \* statusCode of the connection-error result
SuccessStatus == 200        \* statusCode of main's response
MissingKeyResult == 1       \* main's return without SQUARESPACE_API_KEY
LoadOK == 0                 \* insert_items' return after the batch

\* ------------------------------------------------------------- test data
\* Line items and orders as the JSON objects the API serves; an optional
\* field that is absent is absent from the record's domain.
L1 == [id |-> 1, customizations |-> "c1"]
L2 == [id |-> 2, variantOptions |-> "Size:L", customizations |-> "c2"]
L3 == [id |-> 3, variantOptions |-> "Size:M", customizations |-> "c3"]
L4 == [id |-> 4, variantOptions |-> "Size:S", customizations |-> "c4"]
L5 == [id |-> 5, variantOptions |-> "Size:S"]
L6 == [id |-> 6, customizations |-> "c6"]

OrderA == [orderNumber |-> 1001, fulfilledOn |-> "t1", lineItems |-> <<L1, L2>>]
OrderB == [orderNumber |-> 1002, fulfilledOn |-> "t2", lineItems |-> <<L3>>]
OrderC == [orderNumber |-> 1003, lineItems |-> <<L4>>]
OrderD == [orderNumber |-> 1004, fulfilledOn |-> "t4", lineItems |-> <<L5>>]
OrderE == [orderNumber |-> 1005, fulfilledOn |-> "t5", lineItems |-> <<L6>>]
Catalogue == {OrderA, OrderB, OrderC, OrderD, OrderE}

Injective(s) == \A i, j \in 1..Len(s) : i # j => s[i] # s[j]
SeqsUpTo(S, n) == UNION {[1..m -> S] : m \in 0..n}
\* The remote collection: distinct orders, in server order.
Feeds == {s \in SeqsUpTo(Catalogue, MaxOrders) : Injective(s)}

VARIABLES
  collection,   \* the orders the remote endpoint holds for the window
  pageSize,     \* records per page served
  stopAt,       \* the first page whose descriptor says hasNextPage = false
  store,        \* committed rows of syc_orders
  pending,      \* rows written in the open transaction
  tx,           \* "idle" | "intrans" | "inerror"
  conn,         \* "none" | "open" | "closed" | "failed" (connect raised)
  closes,       \* number of conn.close() calls in this run
  pc,           \* position of the run
  run,          \* number of invocations started
  apiKey,       \* SQUARESPACE_API_KEY is set
  page,         \* page the next GET asks for
  frames,       \* item_list of each suspended squarespace_items call
  reqLog,       \* GETs issued in this run: [page, outcome]
  orders,       \* the local `orders` of squarespace_orders_json / main
  oi, li,       \* insert_items loop position: order, line item
  execLog,      \* cursor.execute calls in this run: [order, id, outcome]
  commitLog,    \* conn.commit calls in this run: [order, execs, rolledback]
  insertResult, \* what insert_items returned
  mainResult,   \* what main returned
  exc,          \* exception that escaped main
  log,          \* log lines / prints of this run
  prev          \* summary of the previous run

vars == <<collection, pageSize, stopAt, store, pending, tx, conn, closes, pc,
          run, apiKey, page, frames, reqLog, orders, oi, li, execLog,
          commitLog, insertResult, mainResult, exc, log, prev>>

\* ------------------------------------------------------------ the server
Min(a, b) == IF a < b THEN a ELSE b
\* Number of pages the endpoint holds (an empty window is one empty page).
NumPages ==
  IF Len(collection) = 0 THEN 1
  ELSE (Len(collection) + pageSize - 1) \div pageSize
\* json_data of page i: the array under the result key and the descriptor.
PageBody(i) ==
  [result |-> SubSeq(collection, (i - 1) * pageSize + 1,
                     Min(i * pageSize, Len(collection))),
   pagination |-> [hasNextPage |-> i < stopAt]]
\* What a GET can come back with: a network-level exception or a status.
Statuses == {StatusOK, StatusAccepted, StatusNotFound, StatusServerError}
Response(s) == [error |-> "none", status |-> s]
NetworkError == [error |-> "ConnectionError", status |-> 0]
Outcomes == {Response(s) : s \in Statuses} \cup {NetworkError}

\* --------------------------------------------------------- python values
NoneVal == [type |-> "None", v |-> 0, body |-> ""]
IntVal(n) == [type |-> "int", v |-> n, body |-> ""]
DictVal(code, text) == [type |-> "dict", v |-> code, body |-> text]
Unset == [kind |-> "unset", items |-> <<>>]
FalseVal == [kind |-> "False", items |-> <<>>]
ListVal(s) == [kind |-> "list", items |-> s]
\* Python truthiness of `orders`
Truthy(o) == o.kind = "list" /\ o.items # <<>>

\* --------------------------------------------------------- squarespace_items
\* response.raise_for_status(): HTTPError for 4xx and 5xx
RaisesForStatus(s) == s >= 400 /\ s < 600
\* Mutation: the pages concatenated in the wrong order.
Concat_Swapped(item_list, rest) == rest \o item_list
\* item_list + squarespace_items(...)
Concat(item_list, rest) == item_list \o rest
\* Mutation: the descriptor ignored, the next page always requested.
HasNext_Always(json_data) == TRUE
\* if json_data['pagination']['hasNextPage']
HasNext(json_data) == json_data.pagination.hasNextPage
\* The suspended calls return innermost first, each prepending its page.
RECURSIVE Unwind(_, _)
Unwind(fs, rest) ==
  IF fs = <<>> THEN rest
  ELSE Unwind(SubSeq(fs, 1, Len(fs) - 1), Concat(fs[Len(fs)], rest))

\* --------------------------------------------------- squarespace_orders_json
\* except requests.exceptions.HTTPError
CaughtByFetch(e) == e = "HTTPError"

\* -------------------------------------------------------------- main
\* Mutation: the credential gate never trips.
KeyMissing_Never(key) == FALSE
\* os.environ.get('SQUARESPACE_API_KEY') is None
KeyMissing(key) == key = FALSE
SuccessResponse == DictVal(SuccessStatus, "Data inserted successfully!")
\* sys.exit(arg): None and 0 are success, another int is the code, any
\* other object is printed and the code is 1.
ExitCode(arg) ==
  IF arg.type = "None" THEN 0
  ELSE IF arg.type = "int" THEN arg.v
  ELSE 1

\* -------------------------------------------------------------- insert_items
ConnectionErrorResult == DictVal(ConnErrorStatus, "Database connection error")
\* json.dumps of the values the test data carries
Dumps(x) ==
  CASE x = "Size:L" -> "{\"Size\": \"L\"}"
    [] x = "Size:M" -> "{\"Size\": \"M\"}"
    [] x = "Size:S" -> "{\"Size\": \"S\"}"
    [] OTHER -> "\"custom\""
NULL == "NULL"
\* Mutation: json.dumps applied to the absent value too (the text "null").
VariantOptions_DumpsNone(line_item) ==
  IF "variantOptions" \in DOMAIN line_item
  THEN Dumps(line_item.variantOptions) ELSE "null"
\* variant_options = json.dumps(...) if 'variantOptions' in line_item else None
VariantOptions(line_item) ==
  IF "variantOptions" \in DOMAIN line_item
  THEN Dumps(line_item.variantOptions) ELSE NULL
\* Building `values` subscripts every key: a missing one raises KeyError.
ValuesRaise(payload, line_item) ==
  \/ "customizations" \notin DOMAIN line_item
  \/ "fulfilledOn" \notin DOMAIN payload
\* The row the INSERT writes (the columns the properties speak about).
Row(payload, line_item) ==
  [id |-> line_item.id, order_number |-> payload.orderNumber,
   line_item_id |-> line_item.id,
   variant_options |-> VariantOptions(line_item)]
\* The primary key of syc_orders: a row with this id is already there.
IsDuplicate(id, rows) == \E k \in 1..Len(rows) : rows[k].id = id
\* cursor.execute in the transaction state tx, with `fate` the store's
\* verdict on a statement that is neither blocked nor a duplicate.
ExecOutcome(row, fate) ==
  IF tx = "inerror" THEN "InFailedSqlTransaction"
  ELSE IF IsDuplicate(row.id, store \o pending) THEN "UniqueViolation"
  ELSE fate
\* Mutation: the UniqueViolation handler missing.
CaughtByInsert_OnlyFailedTx(e) == e \in {"InFailedSqlTransaction"}
\* except psycopg2.errors.UniqueViolation / InFailedSqlTransaction
CaughtByInsert(e) == e \in {"UniqueViolation", "InFailedSqlTransaction"}
\* Mutation: the commit writes nothing.
Committed_Dropped(rows, new, state) == rows
\* Mutation: the commit replaces the table's rows by the transaction's.
Committed_Overwrite(rows, new, state) == IF state = "inerror" THEN rows ELSE new
\* Mutation: the commit keeps the accepted rows of a failed transaction.
Committed_IgnoresFailure(rows, new, state) == rows \o new
\* conn.commit(): a failed transaction is rolled back, not committed.
Committed(rows, new, state) == IF state = "inerror" THEN rows ELSE rows \o new
\* Mutation: a failed connect not handled, the loop entered anyway.
ConnectFails_Never(ok) == FALSE
\* except Exception around connect: the error result, else the loop
ConnectFails(ok) == ~ok

\* ------------------------------------------------------------ initial state
\* Rows a previous sync may have left in syc_orders.
InitStores == {<<>>, <<Row(OrderA, L1)>>, <<Row(OrderA, L2)>>}
NoRun == [run |-> 0, orders |-> Unset, insertResult |-> NoneVal,
          store |-> <<>>, pc |-> "idle"]

Init ==
  /\ collection \in Feeds
  /\ pageSize \in 1..MaxPerPage
  /\ stopAt \in 1..(IF Len(collection) = 0 THEN 1
                    ELSE (Len(collection) + pageSize - 1) \div pageSize)
  /\ store \in InitStores
  /\ pending = <<>> /\ tx = "idle" /\ conn = "none" /\ closes = 0
  /\ pc = "idle" /\ run = 0 /\ apiKey = TRUE
  /\ page = 0 /\ frames = <<>> /\ reqLog = <<>> /\ orders = Unset
  /\ oi = 0 /\ li = 0 /\ execLog = <<>> /\ commitLog = <<>>
  /\ insertResult = NoneVal /\ mainResult = NoneVal /\ exc = "none"
  /\ log = <<>> /\ prev = NoRun

\* ------------------------------------------------------------------ main
\* handler(event, context) or the __main__ block calls main(): the
\* credential gate, then squarespace_orders_json(). Both entry points only
\* pass on what main returns (HandlerResult, ProcessExit below).
Main(key) ==
  /\ pc \in {"idle", "done", "crashed"}
  /\ run < MaxRuns
  /\ run' = run + 1 /\ apiKey' = key
  /\ prev' = [run |-> run, orders |-> orders, insertResult |-> insertResult,
              store |-> store, pc |-> pc]
  /\ pending' = <<>> /\ tx' = "idle" /\ conn' = "none" /\ closes' = 0
  /\ frames' = <<>> /\ reqLog' = <<>> /\ orders' = Unset
  /\ oi' = 0 /\ li' = 0 /\ execLog' = <<>> /\ commitLog' = <<>>
  /\ insertResult' = NoneVal /\ exc' = "none"
  /\ IF KeyMissing(key)
     THEN /\ log' = <<"critical: Failed to pass SQUARESPACE_API_KEY">>
          /\ mainResult' = IntVal(MissingKeyResult)
          /\ pc' = "done" /\ page' = 0
     ELSE /\ log' = <<>> /\ mainResult' = NoneVal
          /\ pc' = "fetch" /\ page' = 1
  /\ UNCHANGED <<collection, pageSize, stopAt, store>>

\* An exception leaving squarespace_items reaches squarespace_orders_json:
\* an HTTPError is logged and `return orders` then reads the unassigned
\* local; anything else passes through. Either way it escapes main.
FetchRaise(e, lines) ==
  /\ pc' = "crashed"
  /\ IF CaughtByFetch(e)
     THEN /\ exc' = "UnboundLocalError"
          /\ log' = Append(lines, "error: Failed to get new orders")
     ELSE /\ exc' = e /\ log' = lines
  /\ UNCHANGED <<orders, frames, page>>

\* squarespace_orders_json returns `orders` to main, which calls insert_items.
FetchReturn(value, lines) ==
  /\ orders' = value
  /\ log' = IF Truthy(value) THEN lines
            ELSE Append(lines, "warning: No orders since the beginning of the year")
  /\ pc' = "connect"
  /\ UNCHANGED <<frames, page, exc>>

\* One call of squarespace_items: the GET of `page` and what follows it.
Get(outcome) ==
  /\ pc = "fetch"
  /\ page <= NumPages
  /\ IF ~apiKey
     THEN \* "Bearer " + None
          /\ reqLog' = reqLog
          /\ FetchRaise("TypeError", log)
     ELSE
       /\ reqLog' = Append(reqLog, [page |-> page, outcome |-> outcome])
       /\ IF outcome.error # "none" THEN FetchRaise("ConnectionError", log)
          ELSE IF RaisesForStatus(outcome.status) THEN FetchRaise("HTTPError", log)
          ELSE IF outcome.status # StatusOK
          THEN \* logged, return False: to the caller, or into `item_list + False`
               IF frames = <<>>
               THEN FetchReturn(FalseVal, Append(log, "error: status NOT OK"))
               ELSE FetchRaise("TypeError", Append(log, "error: status NOT OK"))
          ELSE LET json_data == PageBody(page)
                   item_list == json_data.result
               IN IF HasNext(json_data)
                  THEN /\ frames' = Append(frames, item_list)
                       /\ page' = page + 1
                       /\ UNCHANGED <<orders, log, pc, exc>>
                  ELSE FetchReturn(ListVal(Unwind(frames, item_list)), log)
  /\ UNCHANGED <<collection, pageSize, stopAt, store, pending, tx, conn,
                 closes, run, apiKey, oi, li, execLog, commitLog,
                 insertResult, mainResult, prev>>

\* ------------------------------------------------------------ insert_items
\* Mutation: the commit issued after every line item.
AfterItem_CommitEachRow(items, o, l) == [pc |-> "commit", oi |-> o, li |-> l]
\* Where the loops stand after line item l of order o has been handled, and
\* after the commit of order o.
AfterItem(items, o, l) ==
  IF l < Len(items[o].lineItems)
  THEN [pc |-> "loop", oi |-> o, li |-> l + 1]
  ELSE [pc |-> "commit", oi |-> o, li |-> l]
EnterOrder(items, o) ==
  IF o > Len(items) THEN [pc |-> "close", oi |-> o, li |-> 0]
  ELSE IF items[o].lineItems = <<>> THEN [pc |-> "commit", oi |-> o, li |-> 0]
  ELSE [pc |-> "loop", oi |-> o, li |-> 1]

\* main's tail once insert_items has returned `r`: the return value is
\* dropped and the success response returned.
MainReturns(r) ==
  /\ insertResult' = r
  /\ mainResult' = SuccessResponse
  /\ pc' = "done"

\* psycopg2.connect and conn.cursor(), then the start of the loop.
Connect(ok) ==
  /\ pc = "connect"
  /\ conn' = IF ok THEN "open" ELSE "failed"
  /\ IF ConnectFails(ok)
     THEN /\ MainReturns(ConnectionErrorResult)
          /\ UNCHANGED <<oi, li, exc>>
     ELSE /\ IF orders.kind # "list"
             THEN \* for payload in False
                  /\ pc' = "crashed" /\ exc' = "TypeError"
                  /\ UNCHANGED <<oi, li, insertResult, mainResult>>
             ELSE LET n == EnterOrder(orders.items, 1)
                  IN /\ pc' = n.pc /\ oi' = n.oi /\ li' = n.li
                     /\ UNCHANGED <<insertResult, mainResult, exc>>
  /\ UNCHANGED <<collection, pageSize, stopAt, store, pending, tx, closes,
                 run, apiKey, page, frames, reqLog, orders, execLog,
                 commitLog, log, prev>>

\* One iteration of the inner loop: flatten the line item and execute the
\* INSERT; `fate` is the store's verdict on a statement it would accept.
Insert(fate) ==
  /\ pc = "loop"
  /\ LET payload == orders.items[oi]
         line_item == payload.lineItems[li]
     IN IF ValuesRaise(payload, line_item)
        THEN /\ pc' = "crashed" /\ exc' = "KeyError"
             /\ UNCHANGED <<pending, tx, execLog, log, oi, li>>
        ELSE LET row == Row(payload, line_item)
                 out == ExecOutcome(row, fate)
                 n == AfterItem(orders.items, oi, li)
             IN /\ execLog' = Append(execLog,
                                     [order |-> oi, row |-> row, outcome |-> out])
                /\ pending' = IF out = "ok" THEN Append(pending, row) ELSE pending
                /\ tx' = IF out = "ok" THEN "intrans" ELSE "inerror"
                /\ IF out = "ok" \/ CaughtByInsert(out)
                   THEN /\ pc' = n.pc /\ oi' = n.oi /\ li' = n.li
                        /\ exc' = exc
                        /\ log' = IF out = "UniqueViolation"
                                  THEN Append(log, "Caught duplicate lineitem, skipping")
                                  ELSE IF out = "InFailedSqlTransaction"
                                  THEN Append(log, "Some error in the transaction")
                                  ELSE log
                   ELSE /\ pc' = "crashed" /\ exc' = out
                        /\ UNCHANGED <<log, oi, li>>
  /\ UNCHANGED <<collection, pageSize, stopAt, store, conn, closes, run,
                 apiKey, page, frames, reqLog, orders, commitLog, insertResult,
                 mainResult, prev>>

\* conn.commit() after the line items of order oi.
Commit ==
  /\ pc = "commit"
  /\ store' = Committed(store, pending, tx)
  /\ commitLog' = Append(commitLog,
                         [order |-> oi, execs |-> Len(execLog),
                          rolledback |-> tx = "inerror"])
  /\ pending' = <<>> /\ tx' = "idle"
  /\ LET n == EnterOrder(orders.items, oi + 1)
     IN pc' = n.pc /\ oi' = n.oi /\ li' = n.li
  /\ UNCHANGED <<collection, pageSize, stopAt, conn, closes, run,
                 apiKey, page, frames, reqLog, orders, execLog, insertResult,
                 mainResult, exc, log, prev>>

\* Mutation: insert_items returns without closing cursor and connection.
Close_NoRelease ==
  /\ pc = "close"
  /\ log' = Append(log, "Successful load out")
  /\ MainReturns(IntVal(LoadOK))
  /\ UNCHANGED <<collection, pageSize, stopAt, store, pending, tx, run,
                 apiKey, page, frames, reqLog, orders, oi, li, execLog,
                 commitLog, exc, prev, conn, closes>>

\* cursor.close(), conn.close(), return 0; main then returns its response.
Close ==
  /\ pc = "close"
  /\ conn' = "closed" /\ closes' = closes + 1
  /\ log' = Append(log, "Successful load out")
  /\ MainReturns(IntVal(LoadOK))
  /\ UNCHANGED <<collection, pageSize, stopAt, store, pending, tx, run,
                 apiKey, page, frames, reqLog, orders, oi, li, execLog,
                 commitLog, exc, prev>>

\* What this run of main yields through each entry point: handler's return
\* value, and the exit code of the process when the script is run directly
\* (1 for an uncaught exception).
HandlerResult == mainResult
ProcessExit == IF pc = "crashed" THEN 1 ELSE ExitCode(mainResult)

Fates == {"ok", "DataError"}

Next ==
  \/ \E key \in BOOLEAN : Main(key)
  \/ \E outcome \in Outcomes : Get(outcome)
  \/ \E ok \in BOOLEAN : Connect(ok)
  \/ \E fate \in Fates : Insert(fate)
  \/ Commit
  \/ Close

Spec == Init /\ [][Next]_vars

\* ================================================================ properties
Ended == pc \in {"done", "crashed"}
\* An exception left squarespace_orders_json (insert_items was never entered).
FetchEscaped == pc = "crashed" /\ conn = "none"
FetchOver == run >= 1 /\ apiKey /\ pc # "fetch"
InStore(row) == \E k \in 1..Len(store) : store[k] = row
ExecsOf(o) == SelectSeq(execLog, LAMBDA x : x.order = o)
Logged(line) == \E k \in 1..Len(log) : log[k] = line
\* The first page whose pagination descriptor says there is no next page.
FirstLastPage ==
  CHOOSE i \in 1..NumPages :
    /\ ~PageBody(i).pagination.hasNextPage
    /\ \A j \in 1..(i - 1) : PageBody(j).pagination.hasNextPage
AllOK(n) == \A i \in 1..n : reqLog[i].outcome = Response(StatusOK)
NonSuccess(o) == o.error = "none" /\ o.status # StatusOK

\* C1: for an order of two line items of which one insert raised a
\* uniqueness violation and the other succeeded, after that order's commit
\* the successfully inserted row is in the store.
C1_PartialBatchResilience ==
  \A c \in 1..Len(commitLog) :
    LET es == ExecsOf(commitLog[c].order)
    IN Len(es) = 2 =>
         \A i, j \in 1..2 :
           (es[i].outcome = "ok" /\ es[j].outcome = "UniqueViolation")
             => InStore(es[i].row)

\* C2: a run of insert_items over the same orders as the previous run, which
\* returned its success result, leaves the store as that run left it and
\* returns the success result too; and no line item id is ever in two rows.
C2_IdempotentPersistence ==
  /\ \A i, j \in 1..Len(store) : i # j => store[i].id # store[j].id
  /\ ( /\ run >= 2 /\ Ended
       /\ prev.pc = "done" /\ prev.insertResult = IntVal(LoadOK)
       /\ orders = prev.orders
       /\ conn \in {"open", "closed"}
       /\ \A k \in 1..Len(execLog) : execLog[k].outcome # "DataError" )
     => /\ pc = "done"
        /\ insertResult = IntVal(LoadOK)
        /\ store = prev.store
        /\ exc = "none"
C2_Witness ==
  /\ run >= 2 /\ pc = "done"
  /\ prev.pc = "done" /\ prev.insertResult = IntVal(LoadOK)
  /\ orders = prev.orders /\ Len(orders.items) >= 2
  /\ insertResult = IntVal(LoadOK)
  /\ \E k \in 1..Len(execLog) : execLog[k].outcome = "UniqueViolation"
  /\ store = prev.store /\ Len(store) >= 2

\* C3: when every page is served with success status, N full pages of k
\* records with hasNextPage true exactly on pages 1..N-1, the paginator
\* returns the N*k records in page order and, within a page, server order.
C3_PaginationCompleteness ==
  ( /\ FetchOver
    /\ stopAt = NumPages /\ Len(collection) = NumPages * pageSize
    /\ Len(reqLog) >= 1 /\ AllOK(Len(reqLog)) )
  => /\ orders = ListVal(collection)
     /\ Len(orders.items) = NumPages * pageSize
C3_Witness ==
  /\ pc = "connect" /\ NumPages >= 3
  /\ stopAt = NumPages /\ Len(collection) = NumPages * pageSize
  /\ AllOK(Len(reqLog)) /\ Len(reqLog) = NumPages
  /\ orders = ListVal(collection)

\* C4: pages are requested once each, in order; no request follows the first
\* page whose descriptor says hasNextPage false; a fetch that returns its
\* list has issued exactly as many GETs as there are pages up to that one.
C4_PaginationTermination ==
  /\ \A i \in 1..Len(reqLog) : reqLog[i].page = i
  /\ Len(reqLog) <= FirstLastPage
  /\ (FetchOver /\ orders.kind = "list") => Len(reqLog) = FirstLastPage
C4_Witness ==
  /\ FetchOver /\ orders.kind = "list"
  /\ FirstLastPage >= 2 /\ FirstLastPage < NumPages
  /\ Len(reqLog) = FirstLastPage

\* C5: when the first GET returns a non-success status, the failure is
\* logged, no exception leaves squarespace_orders_json, main is handed an
\* empty result and the run performs no insert.
C5_FirstPageFailureRecovered ==
  (FetchOver /\ Len(reqLog) >= 1 /\ NonSuccess(reqLog[1].outcome))
  => /\ ~FetchEscaped
     /\ ~Truthy(orders) /\ orders.kind # "unset"
     /\ Len(log) >= 1
     /\ execLog = <<>>

\* C6: when pages 1..j-1 (j >= 2) succeed and page j returns a non-success
\* status, no exception aborts the run and the paginator's result is the
\* records of pages 1..j-1 in page order.
C6_MidPaginationTruncates ==
  \A j \in 2..Len(reqLog) :
    (FetchOver /\ AllOK(j - 1) /\ NonSuccess(reqLog[j].outcome))
    => /\ ~FetchEscaped
       /\ orders = ListVal(SubSeq(collection, 1, (j - 1) * pageSize))

\* C7: when a GET raises a network-level exception, squarespace_orders_json
\* catches and logs it and returns to main with no orders.
C7_NetworkExceptionCaught ==
  (FetchOver /\ \E i \in 1..Len(reqLog) : reqLog[i].outcome = NetworkError)
  => /\ ~FetchEscaped
     /\ ~Truthy(orders)
     /\ Len(log) >= 1

\* C8: when the database connection cannot be established, insert_items
\* returns the connection-error result (status 500 and a message) at once:
\* no insert, no commit, the store as it was when the run began.
C8_ConnectionFailureAborts ==
  conn = "failed"
  => /\ pc = "done"
     /\ insertResult = ConnectionErrorResult
     /\ insertResult.type = "dict" /\ insertResult.v = ConnErrorStatus
     /\ execLog = <<>> /\ commitLog = <<>> /\ pending = <<>>
     /\ store = prev.store
C8_Witness ==
  /\ conn = "failed" /\ insertResult = ConnectionErrorResult
  /\ orders.kind = "list" /\ Len(orders.items) >= 1
  /\ execLog = <<>> /\ commitLog = <<>>

\* C9: when handler is invoked and the store connection cannot be
\* established, handler returns the connection-error result, not the 200
\* success response.
C9_HandlerReportsFailure ==
  (pc = "done" /\ conn = "failed")
  => /\ HandlerResult = ConnectionErrorResult
     /\ HandlerResult # SuccessResponse

\* C10: without SQUARESPACE_API_KEY main returns 1 at once: no HTTP request,
\* no database connection, no row written.
C10_CredentialGate ==
  (run >= 1 /\ ~apiKey)
  => /\ pc = "done" /\ mainResult = IntVal(MissingKeyResult)
     /\ reqLog = <<>> /\ conn = "none"
     /\ execLog = <<>> /\ commitLog = <<>> /\ pending = <<>>
     /\ store = prev.store
C10_Witness ==
  /\ run >= 1 /\ ~apiKey /\ pc = "done"
  /\ mainResult = IntVal(MissingKeyResult) /\ reqLog = <<>>

\* C11: run directly, the process exits with code 0 when the run (fetch then
\* persist) completes successfully and with code 1 when the API credential
\* is missing.
C11_DirectExitCodes ==
  /\ (pc = "done" /\ apiKey /\ insertResult = IntVal(LoadOK)) => ProcessExit = 0
  /\ (pc = "done" /\ ~apiKey) => ProcessExit = 1

\* C12: an insert that fails with a statement-level error other than a
\* uniqueness violation, in a usable transaction, is skipped alone: nothing
\* escapes insert_items, the remaining line items and orders are attempted
\* and insert_items completes with its success result.
C12_OtherFailureSkipsItem ==
  (\E k \in 1..Len(execLog) : execLog[k].outcome = "DataError")
  => /\ pc # "crashed"
     /\ pc = "done" => insertResult = IntVal(LoadOK)

\* The number of line items of a batch, and the rows this run added.
RECURSIVE CountItems(_)
CountItems(items) ==
  IF items = <<>> THEN 0 ELSE Len(Head(items).lineItems) + CountItems(Tail(items))
NewRows == SubSeq(store, Len(prev.store) + 1, Len(store))
StoreHadId(id) == \E k \in 1..Len(prev.store) : prev.store[k].id = id
LoadReturned == pc = "done" /\ apiKey /\ insertResult = IntVal(LoadOK)

\* C13: from a store holding none of the batch's line item ids, with the
\* connection established and no insert failing, once insert_items has
\* returned the store holds exactly one row per line item of every order,
\* keyed by the line item id and carrying the parent's orderNumber, and no
\* other new row; the one connection opened at the start served the batch.
C13_PersistenceCompleteness ==
  ( /\ LoadReturned /\ orders.kind = "list"
    /\ \A o \in 1..Len(orders.items) :
         \A l \in 1..Len(orders.items[o].lineItems) :
           ~StoreHadId(orders.items[o].lineItems[l].id)
    /\ \A k \in 1..Len(execLog) : execLog[k].outcome = "ok" )
  => /\ \A o \in 1..Len(orders.items) :
          \A l \in 1..Len(orders.items[o].lineItems) :
            LET item == orders.items[o].lineItems[l]
                hits == {k \in 1..Len(store) : store[k].id = item.id}
            IN /\ Cardinality(hits) = 1
               /\ \A k \in hits :
                    /\ store[k].line_item_id = item.id
                    /\ store[k].order_number = orders.items[o].orderNumber
     /\ Len(NewRows) = CountItems(orders.items)
     /\ SubSeq(store, 1, Len(prev.store)) = prev.store
     /\ conn = "closed" /\ closes = 1
C13_Witness ==
  /\ LoadReturned /\ orders.kind = "list"
  /\ Len(orders.items) >= 2 /\ CountItems(orders.items) >= 3
  /\ Len(NewRows) = CountItems(orders.items)

\* The line items of the batch, and the one a row was built from.
BatchItems ==
  UNION {{orders.items[o].lineItems[l] : l \in 1..Len(orders.items[o].lineItems)} :
           o \in 1..Len(orders.items)}
ItemOf(row) == CHOOSE item \in BatchItems : item.id = row.line_item_id
LacksVariantOptions(item) == "variantOptions" \notin DOMAIN item
ColumnFits(row) ==
  IF LacksVariantOptions(ItemOf(row))
  THEN row.variant_options = "NULL"
  ELSE /\ row.variant_options # "NULL"
       /\ row.variant_options = Dumps(ItemOf(row).variantOptions)

\* C14: a line item without variantOptions is flattened and its insert
\* attempted like any other, its variant_options column being the absent
\* marker (null); a line item with the field carries its serialized value;
\* the rows this run stores carry those values.
C14_MissingVariantOptions ==
  /\ \A k \in 1..Len(execLog) : ColumnFits(execLog[k].row)
  /\ run >= 1 => \A k \in 1..Len(NewRows) : ColumnFits(NewRows[k])
  /\ pc = "loop" => Len(ExecsOf(oi)) = li - 1
  /\ (pc = "crashed" /\ exc = "KeyError")
     => LET payload == orders.items[oi]
            item == payload.lineItems[li]
        IN \/ "customizations" \notin DOMAIN item
           \/ "fulfilledOn" \notin DOMAIN payload
C14_Witness ==
  /\ LoadReturned
  /\ \E k \in 1..Len(NewRows) :
       LacksVariantOptions(ItemOf(NewRows[k])) /\ NewRows[k].variant_options = "NULL"
  /\ \E k \in 1..Len(NewRows) :
       ~LacksVariantOptions(ItemOf(NewRows[k])) /\ NewRows[k].variant_options # "NULL"

\* C15: a committed row is never updated or deleted: in every step, over
\* any sequence of runs and insert outcomes, the store keeps its rows as
\* they are and can only gain rows after them.
C15_AppendOnly ==
  [][/\ Len(store) <= Len(store')
     /\ SubSeq(store', 1, Len(store)) = store]_vars
C15_Witness ==
  /\ run >= 2 /\ Len(prev.store) >= 1
  /\ Len(store) > Len(prev.store)
  /\ SubSeq(store, 1, Len(prev.store)) = prev.store
  /\ \E k \in 1..Len(commitLog) : commitLog[k].rolledback

\* The rows of this run that a commit has made durable: accepted inserts of
\* orders whose commit was not a rollback.
Durable(e) ==
  /\ e.outcome = "ok"
  /\ e.order <= Len(commitLog)
  /\ ~commitLog[e.order].rolledback
RECURSIVE RowsOf(_)
RowsOf(es) == IF es = <<>> THEN <<>> ELSE <<Head(es).row>> \o RowsOf(Tail(es))
DurableRows == RowsOf(SelectSeq(execLog, Durable))

\* C16: one commit per order, in order, issued after the insert of every
\* line item of that order was attempted and before any insert of the next
\* order; at any point, and so when the run stops inside order i, the store
\* holds what the commits of orders 1..i-1 made durable and nothing of the
\* open transaction.
C16_PerOrderCommit ==
  /\ \A k \in 1..Len(commitLog) :
       /\ commitLog[k].order = k
       /\ Len(ExecsOf(k)) = Len(orders.items[k].lineItems)
       /\ \A j \in 1..Len(execLog) :
            (execLog[j].order <= k) <=> (j <= commitLog[k].execs)
  /\ \A j \in 1..Len(execLog) : execLog[j].order <= Len(commitLog) + 1
  /\ LoadReturned => Len(commitLog) = Len(orders.items)
  /\ run >= 1 => store = prev.store \o DurableRows
  /\ (pc = "crashed" /\ conn = "open" /\ orders.kind = "list")
     => /\ Len(commitLog) = oi - 1
        /\ \A k \in 1..Len(pending) : ~InStore(pending[k])
C16_Witness ==
  /\ pc = "crashed" /\ conn = "open" /\ orders.kind = "list"
  /\ oi >= 2 /\ Len(commitLog) = oi - 1
  /\ pending # <<>> /\ DurableRows # <<>>
  /\ store = prev.store \o DurableRows

\* C17: an order without fulfilledOn, or a line item without customizations,
\* is still flattened and its insert attempted: the absence raises nothing
\* out of insert_items, which goes on to attempt every line item of the
\* batch and commit every order.
C17_AbsentOptionalFields ==
  /\ ~(pc = "crashed" /\ exc = "KeyError")
  /\ (pc \in {"loop", "commit"} /\ oi >= 2)
     => Len(ExecsOf(oi - 1)) = Len(orders.items[oi - 1].lineItems)

\* C18: when insert_items completes normally after a successful connect,
\* cursor and connection have been closed exactly once, after the last
\* commit, and nothing is executed or committed on them afterwards; when an
\* exception escapes the loop, the connection is left open.
C18_ConnectionRelease ==
  /\ closes <= 1
  /\ (closes = 1) <=> (conn = "closed")
  /\ LoadReturned
     => /\ conn = "closed" /\ closes = 1
        /\ Len(commitLog) = Len(orders.items)
  /\ conn = "closed" => (pc = "done" /\ pending = <<>> /\ tx = "idle")
  /\ (pc = "crashed" /\ conn # "none") => (conn = "open" /\ closes = 0)
C18_Witness ==
  /\ LoadReturned /\ conn = "closed" /\ closes = 1
  /\ Len(commitLog) >= 2 /\ Len(execLog) >= 2

Added(row) == \E k \in 1..Len(NewRows) : NewRows[k] = row

\* C19: under the store's transaction semantics, after an order's commit
\* either every row whose insert was attempted for that order in this run
\* was added to the store or none was; a uniqueness violation on one line
\* item of an order leaves none of that order's rows of this run in the store.
C19_PerOrderAllOrNothing ==
  \A k \in 1..Len(commitLog) :
    LET es == ExecsOf(k)
    IN /\ \/ \A j \in 1..Len(es) : Added(es[j].row)
          \/ \A j \in 1..Len(es) : ~Added(es[j].row)
       /\ (\E j \in 1..Len(es) : es[j].outcome = "UniqueViolation")
          => \A j \in 1..Len(es) : ~Added(es[j].row)
C19_Witness ==
  \E k \in 1..Len(commitLog) :
    LET es == ExecsOf(k)
    IN /\ commitLog[k].rolledback
       /\ \E i, j \in 1..Len(es) :
            /\ es[i].outcome = "ok" /\ es[j].outcome = "UniqueViolation"
            /\ ~InStore(es[i].row)

====
